---------------------------- MODULE Spec2Model ----------------------------
(***************************************************************************)
(* A model of src/src/index.js: three field reducers combined into one     *)
(* root reducer (reduxApp), the store built from it (appStore), and the    *)
(* Presenter connected to that store through mapStateToProps and           *)
(* mapDispatchToProps.                                                     *)
(*                                                                         *)
(* JavaScript values.  A value that may be `undefined` is a set with at    *)
(* most one element: None (= {}) is undefined, Some(v) (= {v}) is the      *)
(* value v.  An object with the keys data, success and renderCount is a    *)
(* record of such sets; a key whose set is None is a key the object does   *)
(* not have (reading it yields undefined either way).                      *)
(***************************************************************************)
EXTENDS Integers, Sequences, FiniteSets

\* ------------------------------------------------------------------ bounds

\* CHANGE_DATA dispatches a run of the store harness (Spec) may complete.
MaxChanges == 3
\* Largest renderCount a caller-supplied initial state carries.
MaxInitCount == 2
\* Clicks a run of the application alone (AppSpec) may take.
MaxClicks == 120
\* Dispatch calls made from inside one dispatch that is still in progress.
MaxNested == 2

\* --------------------------------------------------------------- JS values

None == {}
Some(v) == {v}
Val(o) == CHOOSE v \in o : TRUE

\* The literal of Presenter's fallback branch (index.js line 104).
Fallback == "We don't have data to show."
\* The payload of the only action the application builds (line 137).
PresenterData == "the Presenter changed me"

\* Strings, booleans and counts the inputs are drawn from.
DataValues == {"", "hello", PresenterData, Fallback}
CountValues == 0..MaxInitCount

OptData == {None} \cup {Some(d) : d \in DataValues}
OptBool == {None, Some(TRUE), Some(FALSE)}
OptCount == {None} \cup {Some(c) : c \in CountValues}

\* The keys of the reducer map handed to combineReducers (lines 77-79).
Keys == {"data", "success", "renderCount"}

\* Objects a caller may hand to createStore: any subset of the three keys.
Objects == [data : OptData, success : OptBool, renderCount : OptCount]
EmptyObject == [data |-> None, success |-> None, renderCount |-> None]
\* An object with all three keys: a State of the data model.
IsState(o) == \A k \in Keys : o[k] # None

\* ----------------------------------------------------------------- actions

ChangeData(d) == [type |-> "CHANGE_DATA", data |-> d]
\* The probe createStore dispatches when the store is constructed.
InitProbe == [type |-> "@@redux/INIT", data |-> None]
\* Action objects the harness dispatches: CHANGE_DATA with each payload and
\* with none, and types no reducer recognises, with and without a payload.
Actions ==
    {ChangeData(d) : d \in OptData}
        \cup {InitProbe, [type |-> "OTHER", data |-> None],
              [type |-> "OTHER", data |-> Some("hello")]}

\* A CHANGE_DATA action of the data model: it carries its data payload.
IsChangeData(a) == a.type = "CHANGE_DATA" /\ a.data # None

\* ---------------------------------------------------------------- reducers

\* A reducer that answers CHANGE_DATA with the value it was given
\* (`return state++`, the slip the comment on line 68 warns of).
countReducerPostIncrement(state, action) ==
    LET s == IF state = None THEN Some(0) ELSE state
    IN  s

\* A reducer that sets the count on CHANGE_DATA instead of incrementing it.
countReducerSetsOne(state, action) ==
    LET s == IF state = None THEN Some(0) ELSE state
    IN  IF action.type = "CHANGE_DATA" THEN Some(1) ELSE s

\* A reducer that toggles success on CHANGE_DATA (`return !state`).
successReducerToggles(state, action) ==
    LET s == IF state = None THEN Some(FALSE) ELSE state
    IN  IF action.type = "CHANGE_DATA" THEN Some(~Val(s)) ELSE s

\* A reducer that never takes the payload (`return state` in both branches).
dataReducerKeepsState(state, action) ==
    IF state = None THEN Some("") ELSE state

\* A reducer whose default branch returns a literal (the slip the comment
\* on line 58 warns of).
successReducerLiteralDefault(state, action) ==
    IF action.type = "CHANGE_DATA" THEN Some(TRUE) ELSE Some(FALSE)

\* A reducer without its default parameter value.
dataReducerNoDefault(state, action) ==
    IF action.type = "CHANGE_DATA" THEN action.data ELSE state

\* const dataReducer = (state = '', action) => ...      (lines 44-51)
dataReducer(state, action) ==
    LET s == IF state = None THEN Some("") ELSE state
    IN  IF action.type = "CHANGE_DATA" THEN action.data ELSE s

\* const successReducer = (state = false, action) => ... (lines 53-61)
successReducer(state, action) ==
    LET s == IF state = None THEN Some(FALSE) ELSE state
    IN  IF action.type = "CHANGE_DATA" THEN Some(TRUE) ELSE s

\* const countReducer = (state = 0, action) => ...      (lines 63-73)
\* `return ++state` increments the parameter, a local copy of a number, and
\* returns the incremented value.
countReducer(state, action) ==
    LET s == IF state = None THEN Some(0) ELSE state
    IN  IF action.type = "CHANGE_DATA" THEN Some(Val(s) + 1) ELSE s

\* A count that the reducer shares with its caller and increments in place.
countReducerArgumentIncremented(state, action) ==
    IF action.type = "CHANGE_DATA" /\ state # None THEN Some(Val(state) + 1) ELSE state

\* What the value the caller passed reads once countReducer has returned:
\* `++state` assigns to the parameter, and the number was passed by value.
countReducerArgument(state, action) == state

\* The record a dispatch was applied to, as it reads after the reducers ran.
priorState(state, action) ==
    [state EXCEPT !.renderCount = countReducerArgument(state.renderCount, action)]

\* A root reducer whose success field looks at the data field as well.
FieldResultsCoupled(state, action) ==
    [data        |-> dataReducer(state.data, action),
     success     |-> IF action.type = "CHANGE_DATA" THEN Some(TRUE)
                     ELSE Some(state.data # None /\ state.data # Some("")),
     renderCount |-> countReducer(state.renderCount, action)]

\* What the three field reducers return for the object `state`, key by key.
FieldResults(state, action) ==
    [data        |-> dataReducer(state.data, action),
     success     |-> successReducer(state.success, action),
     renderCount |-> countReducer(state.renderCount, action)]

\* const reduxApp = combineReducers({data, success, renderCount})  (lines 76-80)
\* redux's combination(state = {}, action) calls every field reducer with
\* state[key] and the action and assembles the results under the same keys.
reduxApp(state, action) ==
    FieldResults(IF state = None THEN EmptyObject ELSE Val(state), action)

\* combination throws ("Given action ..., reducer ... returned undefined")
\* when a field reducer returns undefined.
reduxAppThrows(state, action) ==
    \E k \in Keys : reduxApp(state, action)[k] = None

\* An initial state that claims success before any data has arrived.
initialStateSuccessTrue ==
    [data |-> None, success |-> Some(TRUE), renderCount |-> Some(0)]

\* const initialState = { renderCount: 0, success: false }       (lines 33-36)
initialState == [data |-> None, success |-> Some(FALSE), renderCount |-> Some(0)]

\* The state every reducer default yields.
DefaultState == [data |-> Some(""), success |-> Some(FALSE), renderCount |-> Some(0)]

\* -------------------------------------------------------------------- view

\* A mapStateToProps that reads a key the state does not have
\* (`count: state.count`).
mapStateToPropsWrongKey(state) ==
    [data |-> state.data, success |-> state.success, count |-> None]

\* const mapStateToProps = (state) => ({...})                  (lines 124-128)
mapStateToProps(state) ==
    [data |-> state.data, success |-> state.success, count |-> state.renderCount]

\* A Presenter that shows data whatever success is.
PresenterNoFallback(props) ==
    [message |-> props.data, count |-> props.count]

\* const Presenter = ({ success, data, count, callbackFunc }) => ... (102-114)
\* The two spans of the tree it returns: the message and the count.
Presenter(props) ==
    [message |-> IF props.success = Some(TRUE) THEN props.data ELSE Some(Fallback),
     count   |-> props.count]

\* onClick={ () => callbackFunc() }: the arguments callbackFunc is called
\* with when the link is activated with `event`                   (line 107)
onClick(event) == << >>

\* A callback that dispatches its action twice.
callbackFuncTwice ==
    << ChangeData(Some(PresenterData)), ChangeData(Some(PresenterData)) >>

\* mapDispatchToProps(dispatch).callbackFunc: the dispatch calls one
\* invocation makes, in order                                 (lines 133-140)
callbackFunc == << ChangeData(Some(PresenterData)) >>

\* const Container = connect(mapStateToProps, mapDispatchToProps)(Presenter)
\* What the connected Presenter renders for a store state     (lines 153-156)
Container(state) == Presenter(mapStateToProps(state))

\* ------------------------------------------------------------------- store

\* The store's subscription of the connected Presenter, and the listeners
\* the harness registers beside it.
ContainerListener == "Container"
Listeners == {"L1", "L2"}

\* A dispatch that notifies before it replaces the state.
dispatchNotifyFirst(state, ls, action) ==
    IF reduxAppThrows(Some(state), action)
    THEN [state |-> state, threw |-> TRUE, notified |-> << >>]
    ELSE [state    |-> reduxApp(Some(state), action),
          threw    |-> FALSE,
          notified |-> [i \in 1..Len(ls) |-> [listener |-> ls[i], saw |-> state]]]

\* store.dispatch(action) on a store holding `state` with the listeners `ls`
\* (in registration order): the next state, whether the call threw, and
\* what each listener notified saw through getState().
dispatch(state, ls, action) ==
    IF reduxAppThrows(Some(state), action)
    THEN [state |-> state, threw |-> TRUE, notified |-> << >>]
    ELSE LET next == reduxApp(Some(state), action)
         IN  [state    |-> next,
              threw    |-> FALSE,
              notified |-> [i \in 1..Len(ls) |-> [listener |-> ls[i], saw |-> next]]]

\* A store that lets a dispatch made during another dispatch through.
dispatchWhileDispatchingInterleaves(state, action) ==
    [state |-> IF reduxAppThrows(Some(state), action)
               THEN state ELSE reduxApp(Some(state), action),
     error |-> FALSE]

\* store.dispatch(action) called while a dispatch is in progress on a store
\* holding `state`: the call fails with the reentrancy error and the state
\* is left alone.
dispatchWhileDispatching(state, action) ==
    [state |-> state, error |-> TRUE]

\* listeners.push(listener) / listeners.splice(index, 1)
subscribe(ls, l) == Append(ls, l)
unsubscribe(ls, l) == SelectSeq(ls, LAMBDA x : x # l)

VARIABLES
    preloadedState,  \* createStore's second argument (None: not given)
    currentState,    \* the store's state, what getState() returns
    listeners,       \* the store's listeners, in registration order
    rendered,        \* what the Presenter rendered last
    renderedProps,   \* the props it was rendered with
    \* history of the most recent dispatching event
    origin,          \* the store operation made last: "createStore" |
                     \* "dispatch" | "click" | "subscribe" | "unsubscribe"
    callbackArgs,    \* the arguments callbackFunc was last called with
    emitted,         \* the actions that event dispatched, in order
    last,            \* the action dispatched last
    repeated,        \* whether the dispatch before it was of the same action
    prev,            \* the state the last dispatch was applied to
    held,            \* that state's record as it reads after the dispatch
    threw,           \* whether the last dispatch threw
    notified,        \* the notifications of the last dispatch, in order
    changes,         \* CHANGE_DATA dispatches completed so far
    lastChange,      \* the payload of the latest of them (None: none yet)
    clicks,          \* activations of the Presenter's link so far
    \* a dispatch in progress
    isDispatching,   \* whether the store is inside a dispatch
    pending,         \* the action of that dispatch
    reentryErrors    \* dispatch calls it has rejected since that one began

vars == << preloadedState, currentState, listeners, rendered, renderedProps, origin,
           callbackArgs, emitted, last, repeated, prev, held, threw,
           notified, changes, lastChange, clicks, isDispatching, pending,
           reentryErrors >>

inProgress == << isDispatching, pending, reentryErrors >>

\* createStore(reduxApp, preloaded): currentState = preloaded, then
\* dispatch({type: '@@redux/INIT'}); render() mounts the Container, which
\* subscribes to the store and renders the Presenter.            (lines 90-95,
\* 183-186)
StoreCreated(preloaded) ==
    /\ preloadedState = preloaded
    /\ currentState = reduxApp(preloaded, InitProbe)
    /\ threw = reduxAppThrows(preloaded, InitProbe)
    /\ prev = (IF preloaded = None THEN EmptyObject ELSE Val(preloaded))
    /\ held = priorState(prev, InitProbe)
    /\ listeners = << ContainerListener >>
    /\ rendered = Container(currentState)
    /\ renderedProps = mapStateToProps(currentState)
    /\ origin = "createStore"
    /\ callbackArgs = << >>
    /\ emitted = << InitProbe >>
    /\ last = InitProbe
    /\ repeated = FALSE
    /\ notified = << >>
    /\ changes = 0
    /\ lastChange = None
    /\ clicks = 0
    /\ isDispatching = FALSE
    /\ pending = InitProbe
    /\ reentryErrors = 0

PreloadedStates == {None} \cup {Some(o) : o \in Objects}

Init == \E p \in PreloadedStates : StoreCreated(p)

\* const appStore = configureStore()                           (lines 90-95)
AppInit == StoreCreated(Some(initialState))

\* The history after the dispatch calls `acts` are made one after the other
\* on the history h; a call that throws ends the handler.
RECURSIVE Handle(_, _, _)
Handle(h, ls, acts) ==
    IF acts = << >> \/ (h.emitted # << >> /\ h.threw)
    THEN h
    ELSE LET a == Head(acts)
             r == dispatch(h.state, ls, a)
         IN  Handle([state    |-> r.state,
                     prev     |-> h.state,
                     held     |-> priorState(h.state, a),
                     threw    |-> r.threw,
                     notified |-> r.notified,
                     rendered |-> IF r.threw THEN h.rendered ELSE Container(r.state),
                     renderedProps |-> IF r.threw THEN h.renderedProps
                                       ELSE mapStateToProps(r.state),
                     emitted  |-> Append(h.emitted, a),
                     last     |-> a,
                     repeated |-> (a = h.last),
                     changes  |-> h.changes
                                  + (IF ~r.threw /\ a.type = "CHANGE_DATA" THEN 1 ELSE 0),
                     lastChange |-> IF ~r.threw /\ a.type = "CHANGE_DATA"
                                    THEN a.data ELSE h.lastChange],
                    ls, Tail(acts))

\* One event whose handler makes the dispatch calls `acts`.
Event(kind, args, acts) ==
    LET h == Handle([state    |-> currentState,
                     prev     |-> prev,
                     held     |-> held,
                     threw    |-> threw,
                     notified |-> notified,
                     rendered |-> rendered,
                     renderedProps |-> renderedProps,
                     emitted  |-> << >>,
                     last     |-> last,
                     repeated |-> repeated,
                     changes  |-> changes,
                     lastChange |-> lastChange],
                    listeners, acts)
    IN  /\ currentState' = h.state
        /\ prev' = h.prev
        /\ held' = h.held
        /\ threw' = h.threw
        /\ notified' = h.notified
        /\ rendered' = h.rendered
        /\ renderedProps' = h.renderedProps
        /\ emitted' = h.emitted
        /\ last' = h.last
        /\ repeated' = h.repeated
        /\ changes' = h.changes
        /\ lastChange' = h.lastChange
        /\ origin' = kind
        /\ callbackArgs' = args
        /\ UNCHANGED << preloadedState, listeners >>

\* Some caller of the store dispatches the action a.
Dispatch(a) ==
    /\ ~isDispatching
    /\ a.type = "CHANGE_DATA" => changes < MaxChanges
    /\ Event("dispatch", callbackArgs, << a >>)
    /\ UNCHANGED << clicks, inProgress >>

\* A dispatch of the action a, taken in steps: it begins, ...
BeginDispatch(a) ==
    /\ ~isDispatching
    /\ a.type = "CHANGE_DATA" => changes < MaxChanges
    /\ isDispatching' = TRUE
    /\ pending' = a
    /\ reentryErrors' = 0
    /\ UNCHANGED << preloadedState, currentState, listeners, rendered,
                    renderedProps, origin,
                    callbackArgs, emitted, last, repeated, prev, held,
                    threw, notified, changes, lastChange, clicks >>

\* ... code running inside it calls dispatch(b), ...
NestedDispatch(b) ==
    /\ isDispatching
    /\ reentryErrors < MaxNested
    /\ LET r == dispatchWhileDispatching(currentState, b)
       IN  /\ currentState' = r.state
           /\ reentryErrors' = reentryErrors + (IF r.error THEN 1 ELSE 0)
    /\ UNCHANGED << preloadedState, listeners, rendered, renderedProps, origin,
                    callbackArgs,
                    emitted, last, repeated, prev, held, threw, notified,
                    changes, lastChange, clicks, isDispatching, pending >>

\* ... and it completes: the state is replaced and the listeners notified.
EndDispatch ==
    /\ isDispatching
    /\ Event("dispatch", callbackArgs, << pending >>)
    /\ isDispatching' = FALSE
    /\ UNCHANGED << clicks, pending, reentryErrors >>

\* The Presenter's link is activated: onClick calls callbackFunc.
ClickUpTo(limit) ==
    /\ ~isDispatching
    /\ changes + Len(callbackFunc) <= limit
    /\ Event("click", onClick("click"), callbackFunc)
    /\ clicks' = clicks + 1
    /\ UNCHANGED inProgress

Click == ClickUpTo(MaxChanges)
AppClick == ClickUpTo(MaxClicks)

Subscribe(l) ==
    /\ \A i \in 1..Len(listeners) : listeners[i] # l
    /\ listeners' = subscribe(listeners, l)
    /\ origin' = "subscribe"
    /\ UNCHANGED << preloadedState, currentState, rendered, renderedProps,
                    callbackArgs,
                    emitted, last, repeated, prev, held, threw, notified,
                    changes, lastChange, clicks, inProgress >>

Unsubscribe(l) ==
    /\ \E i \in 1..Len(listeners) : listeners[i] = l
    /\ listeners' = unsubscribe(listeners, l)
    /\ origin' = "unsubscribe"
    /\ UNCHANGED << preloadedState, currentState, rendered, renderedProps,
                    callbackArgs,
                    emitted, last, repeated, prev, held, threw, notified,
                    changes, lastChange, clicks, inProgress >>

\* The store built from any initial state, with any action dispatched to it
\* (the connected Presenter mounted on it).
Next == \E a \in Actions : Dispatch(a)
Spec == Init /\ [][Next]_vars

\* The application's store with listeners coming and going beside the
\* Container, callers dispatching and the link being clicked.
StoreActions ==
    {ChangeData(Some("hello")), ChangeData(None), [type |-> "OTHER", data |-> None]}
StoreNext ==
    \/ \E a \in StoreActions : Dispatch(a)
    \/ Click
    \/ \E l \in Listeners : Subscribe(l)
    \/ \E l \in Listeners : Unsubscribe(l)
StoreSpec == AppInit /\ [][StoreNext]_vars

\* The application's store with dispatches taken in steps, and dispatch
\* called from inside them.
ReentryNext ==
    \/ \E a \in StoreActions : BeginDispatch(a)
    \/ \E b \in StoreActions : NestedDispatch(b)
    \/ EndDispatch
ReentrySpec == AppInit /\ [][ReentryNext]_vars

\* The application as index.js runs it: its own initial state, and clicks.
AppNext == AppClick
AppSpec == AppInit /\ [][AppNext]_vars

\* ------------------------------------------------------------------ claims

\* The renderCount the store starts with: the supplied one, else the default.
InitialCount ==
    IF preloadedState = None \/ Val(preloadedState).renderCount = None
    THEN 0
    ELSE Val(Val(preloadedState).renderCount)

\* C1: a dispatch of {type: 'CHANGE_DATA', data: X} to a store holding
\* {data: D, success: S, renderCount: C} leaves it holding exactly
\* {data: X, success: true, renderCount: C + 1}, whatever D, S and C were.
C1_ChangeDataResult ==
    (origin = "dispatch" /\ IsChangeData(last)) =>
        /\ ~threw
        /\ currentState = [data        |-> last.data,
                           success     |-> Some(TRUE),
                           renderCount |-> Some(Val(prev.renderCount) + 1)]

\* C1's case: CHANGE_DATA applied to a state whose success was already true,
\* whose data differed from the payload and whose count was not 0.
C1_Witness ==
    /\ origin = "dispatch" /\ IsChangeData(last)
    /\ prev.success = Some(TRUE)
    /\ prev.data # last.data
    /\ prev.renderCount = Some(2)

\* C2: an action whose type is not CHANGE_DATA (the store's initialization
\* probe included) applied to a state returns that state, field for field.
C2_UnknownActionIdentity ==
    (last.type # "CHANGE_DATA" /\ IsState(prev)) =>
        /\ ~threw
        /\ currentState = prev

\* C2's case: an unrecognised action carrying a payload, dispatched to a
\* state that an earlier CHANGE_DATA had moved off the defaults.
C2_Witness ==
    /\ origin = "dispatch"
    /\ last = [type |-> "OTHER", data |-> Some("hello")]
    /\ prev.success = Some(TRUE)
    /\ prev.data = Some(PresenterData)
    /\ prev.renderCount = Some(2)

\* C3: renderCount never decreases; a CHANGE_DATA dispatch adds exactly 1 to
\* it and any other dispatch leaves it alone, so after n CHANGE_DATA
\* dispatches it is the count the store started with plus n.
C3_RenderCountCounts ==
    /\ origin = "dispatch" =>
          currentState.renderCount =
              Some(Val(prev.renderCount) + (IF IsChangeData(last) THEN 1 ELSE 0))
    /\ currentState.renderCount = Some(InitialCount + changes)

\* C3's case: the store built from {data: '', success: false, renderCount: 0}
\* after three CHANGE_DATA dispatches, the last two of data 'hello'.
C3_Witness ==
    /\ preloadedState = Some(DefaultState)
    /\ changes = 3
    /\ repeated
    /\ currentState = [data |-> Some("hello"), success |-> Some(TRUE),
                       renderCount |-> Some(3)]

\* C4: once success is true it is true in every later state of the store.
C4_SuccessStaysTrue ==
    [][currentState.success = Some(TRUE) => currentState'.success = Some(TRUE)]_vars

\* C4's case: an action other than CHANGE_DATA dispatched to a store whose
\* success was already true.
C4_Witness ==
    /\ origin = "dispatch"
    /\ last.type = "OTHER"
    /\ prev.success = Some(TRUE)
    /\ currentState.success = Some(TRUE)

\* C5: constructing the store never fails; every field the initial state
\* supplies keeps its value and every field it omits takes its reducer's
\* default; no initial state, and the application's own initialState, both
\* give {data: '', success: false, renderCount: 0}.
C5_ConstructionDefaults ==
    origin = "createStore" =>
        /\ ~threw
        /\ \A k \in Keys :
              currentState[k] = (IF prev[k] # None THEN prev[k] ELSE DefaultState[k])
        /\ preloadedState \in {None, Some(initialState)} => currentState = DefaultState

\* C5's case: an initial state that supplies success and renderCount, with
\* values that are not the defaults, and omits data.
C5_Witness ==
    /\ origin = "createStore"
    /\ preloadedState = Some([data |-> None, success |-> Some(TRUE),
                              renderCount |-> Some(2)])
    /\ currentState = [data |-> Some(""), success |-> Some(TRUE),
                       renderCount |-> Some(2)]

\* C6: each activation of the Presenter's link calls callbackFunc with no
\* arguments and makes exactly one dispatch, of {type: 'CHANGE_DATA', data:
\* 'the Presenter changed me'}; the application dispatches nothing else.
C6_OneDispatchPerClick ==
    /\ origin \in {"createStore", "click"}
    /\ origin = "click" =>
          /\ callbackArgs = << >>
          /\ emitted = << ChangeData(Some(PresenterData)) >>
          /\ ~threw
    /\ changes = clicks
    /\ last \in {InitProbe, ChangeData(Some(PresenterData))}

\* C6's case: the link has been activated twice.
C6_Witness ==
    /\ origin = "click"
    /\ clicks = 2
    /\ currentState.renderCount = Some(2)

C8_Idempotence ==
    (origin = "dispatch" /\ repeated) =>
        /\ last.type # "CHANGE_DATA" => currentState = prev
        /\ IsChangeData(last) =>
              /\ currentState # prev
              /\ currentState.renderCount # prev.renderCount

\* C8's case: the same CHANGE_DATA action dispatched twice in a row.
C8_Witness ==
    /\ origin = "dispatch"
    /\ repeated
    /\ IsChangeData(last)
    /\ prev.data = last.data

\* C9: the field reducers and the root reducer are total: whatever the prior
\* state and the action object, with or without a data payload, every
\* reduction returns a next state and raises nothing.
C9_ReducersTotal ==
    /\ ~threw
    /\ \A k \in Keys : FieldResults(prev, last)[k] # None

\* C10: after a dispatch has replaced the state, every subscriber is
\* notified, in registration order, and what a listener reads through
\* getState() during its notification is the post-dispatch state.
C10_NotifyInOrderPostState ==
    (origin \in {"dispatch", "click"} /\ ~threw) =>
        notified = [i \in 1..Len(listeners) |->
                        [listener |-> listeners[i], saw |-> currentState]]

\* C10's case: a dispatch that changed the state with three listeners
\* registered, L2 before L1.
C10_Witness ==
    /\ origin = "dispatch"
    /\ ~threw
    /\ currentState # prev
    /\ listeners = << ContainerListener, "L2", "L1" >>
    /\ Len(notified) = 3

\* C11: a dispatch issued while another dispatch is in progress is rejected
\* with an error and is never interleaved with it: the state the outer
\* dispatch leaves is its own action applied to the state it began with.
C11_ReentrantDispatchRejected ==
    [][/\ (isDispatching /\ isDispatching') =>
              /\ reentryErrors' = reentryErrors + 1
              /\ currentState' = currentState
       /\ (isDispatching /\ ~isDispatching' /\ ~threw') =>
              currentState' = reduxApp(Some(currentState), pending)]_vars

\* C11's case: a dispatch that changed the state has completed after two
\* dispatch calls made inside it were rejected.
C11_Witness ==
    /\ ~isDispatching
    /\ reentryErrors = 2
    /\ origin = "dispatch"
    /\ ~threw
    /\ currentState # prev

C13_RenderedPropsFollowState ==
    ~isDispatching =>
        /\ DOMAIN renderedProps = {"data", "success", "count"}
        /\ renderedProps.data = currentState.data
        /\ renderedProps.success = currentState.success
        /\ renderedProps.count = currentState.renderCount
        /\ rendered = Presenter(renderedProps)

\* C13's case: the cycle of the second click has completed.
C13_Witness ==
    /\ origin = "click"
    /\ clicks = 2
    /\ renderedProps = [data |-> Some(PresenterData), success |-> Some(TRUE),
                        count |-> Some(2)]

\* C14: in every state of the running application's store the three fields
\* go together: it holds {data: '', success: false, renderCount: 0} before
\* the first click and {data: 'the Presenter changed me', success: true,
\* renderCount: n} after n >= 1 clicks; success is true exactly when
\* renderCount > 0.
C14_FieldsLockedTogether ==
    /\ \/ /\ clicks = 0
          /\ currentState = DefaultState
       \/ /\ clicks >= 1
          /\ currentState = [data        |-> Some(PresenterData),
                             success     |-> Some(TRUE),
                             renderCount |-> Some(clicks)]
    /\ (currentState.success = Some(TRUE)) <=> (Val(currentState.renderCount) > 0)

\* C14's case: the link has been activated three times.
C14_Witness ==
    /\ clicks = 3
    /\ currentState.renderCount = Some(3)
    /\ currentState.success = Some(TRUE)

\* C15: the root reducer treats the fields independently: whatever the
\* action, a state that agrees with the one reduced on a field gets the
\* same next value for that field, however its other fields differ.
C15_FieldsIndependent ==
    LET out == IF threw THEN FieldResults(prev, last) ELSE currentState
    IN  \A other \in Objects : \A k \in Keys :
            other[k] = prev[k] => reduxApp(Some(other), last)[k] = out[k]

\* C15's case: a CHANGE_DATA was reduced, and a state that shares only its
\* renderCount with the one reduced gets the same next renderCount.
C15_Witness ==
    /\ origin = "dispatch"
    /\ IsChangeData(last)
    /\ prev.renderCount = Some(1)
    /\ \E other \in Objects :
          /\ other.renderCount = prev.renderCount
          /\ other.data # prev.data
          /\ other.success # prev.success
          /\ reduxApp(Some(other), last).renderCount = currentState.renderCount

=============================================================================
